---- MODULE Spec2Model ----
(***************************************************************************)
(* Model of directory_finder (src/src/main.rs): main() expands one root    *)
(* argument with expand_path and walks it with process_entries, which     *)
(* classifies every directory WalkDir yields (is_bare_repository,          *)
(* is_git_repository), expands plain directories recursively and lists    *)
(* the worktrees of bare repositories (list_worktrees).                    *)
(*                                                                         *)
(* Text (command output, argument strings, worktree paths) is a sequence  *)
(* of one-character strings.  A directory is the sequence of its path     *)
(* components relative to the walked root; the root itself is << >>.       *)
(* The recursion of process_entries is an explicit stack of call frames.  *)
(***************************************************************************)
EXTENDS Integers, Sequences, FiniteSets

VARIABLES
    argPath,     \* args.paths[i]: the root argument as typed
    home,        \* $HOME
    dirs,        \* file system: the directories beneath the root
    env,         \* per directory: HEAD-is-a-file, and what git would answer
    gitPresent,  \* FALSE: the git binary cannot be spawned at all
    maxDepth,    \* args.depth
    pc,          \* "main" | "walk" | "done" | "panic"
    full_path,   \* main(): the expanded root path (text)
    stack,       \* active process_entries frames, outermost first
    calls,       \* every process_entries call made so far, in call order
    entries      \* main(): the vector returned by the outermost call

vars == <<argPath, home, dirs, env, gitPresent, maxDepth, pc, full_path,
          stack, calls, entries>>

-----------------------------------------------------------------------------
(* Bounds of the explored inputs *)

MaxDirs == 4        \* directories in a tree
MaxRepos == 2       \* directories of a tree that carry git metadata
MaxDepthBound == 2  \* args.depth ranges over 1..MaxDepthBound
MaxLines == 2       \* lines of a worktree listing

-----------------------------------------------------------------------------
(* Text helpers *)

\* char::is_whitespace, restricted to the characters that occur
IsWhitespace(c) == c \in {" ", "\t", "\n", "\r"}

RECURSIVE TrimStart(_)
TrimStart(s) ==
    IF s = <<>> THEN <<>>
    ELSE IF IsWhitespace(Head(s)) THEN TrimStart(Tail(s))
    ELSE s

RECURSIVE TrimEnd(_)
TrimEnd(s) ==
    IF s = <<>> THEN <<>>
    ELSE IF IsWhitespace(s[Len(s)]) THEN TrimEnd(SubSeq(s, 1, Len(s) - 1))
    ELSE s

\* str::trim
Trim(s) == TrimEnd(TrimStart(s))

\* str::starts_with
StartsWith(s, p) == Len(s) >= Len(p) /\ SubSeq(s, 1, Len(p)) = p

\* str::contains
Contains(s, p) ==
    \E i \in 1..(Len(s) + 1) :
        i + Len(p) - 1 <= Len(s) /\ SubSeq(s, i, i + Len(p) - 1) = p

\* str::find(c): position of the first c in s, 0 when there is none
IndexOf(s, c) ==
    IF \E i \in 1..Len(s) : s[i] = c
    THEN CHOOSE i \in 1..Len(s) : s[i] = c /\ \A j \in 1..(i - 1) : s[j] # c
    ELSE 0

\* str::lines: split after each "\n"; a line loses its "\n" and then a "\r"
\* before it; an unterminated last line is kept as it is
StripCR(l) ==
    IF l # <<>> /\ l[Len(l)] = "\r" THEN SubSeq(l, 1, Len(l) - 1) ELSE l

RECURSIVE Lines(_)
Lines(s) ==
    IF s = <<>> THEN <<>>
    ELSE LET i == IndexOf(s, "\n") IN
         IF i = 0 THEN <<s>>
         ELSE <<StripCR(SubSeq(s, 1, i - 1))>> \o Lines(SubSeq(s, i + 1, Len(s)))

\* str::split_once(' '): the text before the first space, or None
split_once(line) ==
    LET i == IndexOf(line, " ") IN
    IF i = 0 THEN [some |-> FALSE, val |-> <<>>]
    ELSE [some |-> TRUE, val |-> SubSeq(line, 1, i - 1)]

TrueStr == <<"t", "r", "u", "e">>
BareMarker == <<"(", "b", "a", "r", "e", ")">>

-----------------------------------------------------------------------------
(* expand_path *)

TildeSkip == 2      \* &path[2..]

\* Path::join: an absolute right side replaces the left one, otherwise the
\* right side is pushed after a separator (also when it is empty)
PathJoin(base, rel) ==
    IF StartsWith(rel, <<"/">>) THEN rel
    ELSE IF base = <<>> THEN rel
    ELSE IF base[Len(base)] = "/" THEN base \o rel
    ELSE base \o <<"/">> \o rel

\* &path[2..] panics when the string is shorter than two bytes (every
\* character of the explored arguments is one byte long)
expand_path(path, h) ==
    IF StartsWith(path, <<"/">>)
    THEN [panic |-> FALSE, path |-> path]
    ELSE IF StartsWith(path, <<"~">>)
    THEN IF Len(path) < TildeSkip
         THEN [panic |-> TRUE, path |-> <<>>]
         ELSE [panic |-> FALSE,
               path |-> PathJoin(h, SubSeq(path, TildeSkip + 1, Len(path)))]
    ELSE [panic |-> FALSE, path |-> PathJoin(h, path)]

-----------------------------------------------------------------------------
(* The external git tool *)

\* Command::output(): Err when the process cannot be spawned, else the exit
\* status and the bytes of standard output (utf8 = FALSE: not valid UTF-8)
SpawnErr == [spawned |-> FALSE, success |-> FALSE, utf8 |-> TRUE, stdout |-> <<>>]
Ran(ok, text) == [spawned |-> TRUE, success |-> ok, utf8 |-> TRUE, stdout |-> text]
NonUtf8 == [spawned |-> TRUE, success |-> TRUE, utf8 |-> FALSE, stdout |-> TrueStr]

\* Command::new("git").arg("-C").arg(dir)...output(); query is "bare"
\* (rev-parse --is-inside-git-dir), "wt" (rev-parse --is-inside-work-tree)
\* or "list" (worktree list)
Command(dir, query) == IF gitPresent THEN env[dir][query] ELSE SpawnErr

\* StdoutStr with the Err arm taken for a positive answer
StdoutStrErrIsTrue(output) ==
    IF output.spawned
    THEN IF output.utf8 THEN Trim(output.stdout) ELSE <<>>
    ELSE TrueStr

\* match output { Ok(o) => String::from_utf8(o.stdout).unwrap_or("").trim(),
\*                Err(_) => String::new() }
StdoutStr(output) ==
    IF output.spawned
    THEN IF output.utf8 THEN Trim(output.stdout) ELSE <<>>
    ELSE <<>>

\* Path::file_name of an enumerated directory
file_name(dir) == dir[Len(dir)]

\* dir.join(".git").is_dir()
DotGitIsDir(dir) == Append(dir, ".git") \in dirs

\* dir.join("HEAD").is_file()
HeadIsFile(dir) == env[dir].head

is_git_repository(dir) ==
    IF DotGitIsDir(dir)
    THEN StdoutStr(Command(dir, "wt")) = TrueStr
    ELSE FALSE

\* is_bare_repository without the check of the directory's own name
is_bare_repository_AnyName(dir) ==
    IF HeadIsFile(dir)
    THEN StdoutStr(Command(dir, "bare")) = TrueStr
    ELSE FALSE

is_bare_repository(dir) ==
    IF HeadIsFile(dir)
    THEN IF StdoutStr(Command(dir, "bare")) = TrueStr
         THEN file_name(dir) # ".git"
         ELSE FALSE
    ELSE FALSE

\* the for loop of list_worktrees over stdout.lines()
RECURSIVE ParseWorktrees(_)
ParseWorktrees(lines) ==
    IF lines = <<>> THEN <<>>
    ELSE LET line == Head(lines)
             rest == ParseWorktrees(Tail(lines))
         IN  IF Contains(line, BareMarker) THEN rest
             ELSE IF split_once(line).some THEN <<split_once(line).val>> \o rest
             ELSE rest

\* Option<Vec<PathBuf>>
list_worktrees(bare_repo_path) ==
    LET output == Command(bare_repo_path, "list") IN
    IF ~output.spawned THEN [some |-> FALSE, val |-> <<>>]
    ELSE IF ~output.success THEN [some |-> FALSE, val |-> <<>>]
    ELSE [some |-> TRUE, val |-> ParseWorktrees(Lines(output.stdout))]

-----------------------------------------------------------------------------
(* process_entries *)

InnerDepth == 1     \* process_entries(path, 1, ...)
LevelCutoff == 1    \* if level <= 1

\* directory names, in the order the file system lists them
NameOrder == <<".git", "a">>
Names == {NameOrder[i] : i \in 1..Len(NameOrder)}

\* WalkDir::new(root).min_depth(1).max_depth(depth) with
\* filter_entry(is_dir): the directories beneath root down to depth levels,
\* each before its own contents
RECURSIVE WalkFrom(_, _, _)
WalkFrom(root, depth, i) ==
    IF depth = 0 \/ i > Len(NameOrder) THEN <<>>
    ELSE LET child == Append(root, NameOrder[i]) IN
         (IF child \in dirs
          THEN <<child>> \o WalkFrom(child, depth - 1, 1)
          ELSE <<>>) \o WalkFrom(root, depth, i + 1)

\* WalkDirIter descending one level too far
WalkDirIterOneDeeper(root, depth) == WalkFrom(root, depth + 1, 1)

WalkDirIter(root, depth) == WalkFrom(root, depth, 1)

\* let dir_type = if is_bare_repository(path) {..} else if is_git_repository(path) {..}
DirTypeOf(path) ==
    IF is_bare_repository(path) THEN "BareGit"
    ELSE IF is_git_repository(path) THEN "Git"
    ELSE "Dir"

ProjectDir(t, p) == [dir_type |-> t, path |-> p]

\* ShouldRecurse with the cutoff one level later
ShouldRecurseOneMore(level) == level <= LevelCutoff + 1

\* if level <= 1
ShouldRecurse(level) == level <= LevelCutoff

\* FilterNested without the filter
FilterNestedKeepAll(rs) == rs

\* .iter().filter(|&x| x.dir_type != DirType::Dir).cloned().collect()
RECURSIVE FilterNested(_)
FilterNested(rs) ==
    IF rs = <<>> THEN <<>>
    ELSE IF Head(rs).dir_type # "Dir" THEN <<Head(rs)>> \o FilterNested(Tail(rs))
    ELSE FilterNested(Tail(rs))

\* for worktree in worktrees { results.push(ProjectDir{WorkTree, worktree}) }
WorkTreeEntries(opt) ==
    IF opt.some
    THEN [i \in 1..Len(opt.val) |-> ProjectDir("WorkTree", opt.val[i])]
    ELSE <<>>

\* a fresh call frame: results empty, the WalkDir iterator at its start
Frame(path, depth, level) ==
    [full_path |-> path, depth |-> depth, level |-> level,
     pending |-> WalkDirIter(path, depth), results |-> <<>>]

Call(path, depth, level) == [path |-> path, depth |-> depth, level |-> level]

Top == stack[Len(stack)]
Walking == pc = "walk" /\ stack # <<>> /\ Top.pending # <<>>

\* the frame on top after the closure body has pushed `pushed` for the
\* entry at the head of its iterator
Advanced(pushed) ==
    [Top EXCEPT !.pending = Tail(@), !.results = @ \o pushed]

Unchanged == UNCHANGED <<argPath, home, dirs, env, gitPresent, maxDepth>>

\* main(): expand_path panics, the process aborts
ExpandPanics ==
    /\ pc = "main"
    /\ expand_path(argPath, home).panic
    /\ pc' = "panic"
    /\ UNCHANGED <<full_path, stack, calls, entries>>
    /\ Unchanged

\* main(): full_path = expand_path(path, &home); process_entries(&full_path,
\* args.depth, None) is entered
ExpandAndCall ==
    /\ pc = "main"
    /\ ~expand_path(argPath, home).panic
    /\ full_path' = expand_path(argPath, home).path
    /\ stack' = <<Frame(<<>>, maxDepth, 0)>>
    /\ calls' = <<Call(<<>>, maxDepth, 0)>>
    /\ pc' = "walk"
    /\ UNCHANGED entries
    /\ Unchanged

\* closure body, dir_type = BareGit: push the entry, then its worktrees
VisitBare ==
    /\ Walking
    /\ LET path == Head(Top.pending) IN
       /\ DirTypeOf(path) = "BareGit"
       /\ stack' = [stack EXCEPT ![Len(stack)] =
              Advanced(<<ProjectDir("BareGit", path)>>
                       \o WorkTreeEntries(list_worktrees(path)))]
    /\ UNCHANGED <<pc, full_path, calls, entries>>
    /\ Unchanged

\* closure body, dir_type = Git: push the entry, nothing else
VisitGit ==
    /\ Walking
    /\ LET path == Head(Top.pending) IN
       /\ DirTypeOf(path) = "Git"
       /\ stack' = [stack EXCEPT ![Len(stack)] =
              Advanced(<<ProjectDir("Git", path)>>)]
    /\ UNCHANGED <<pc, full_path, calls, entries>>
    /\ Unchanged

\* closure body, dir_type = Dir and level <= 1: push the entry and enter
\* process_entries(path, 1, Some(level + 1))
VisitDirRecurse ==
    /\ Walking
    /\ LET path == Head(Top.pending) IN
       /\ DirTypeOf(path) = "Dir"
       /\ ShouldRecurse(Top.level)
       /\ stack' = Append([stack EXCEPT ![Len(stack)] =
                              Advanced(<<ProjectDir("Dir", path)>>)],
                          Frame(path, InnerDepth, Top.level + 1))
       /\ calls' = Append(calls, Call(path, InnerDepth, Top.level + 1))
    /\ UNCHANGED <<pc, full_path, entries>>
    /\ Unchanged

\* closure body, dir_type = Dir and level > 1: push the entry only
VisitDirLeaf ==
    /\ Walking
    /\ LET path == Head(Top.pending) IN
       /\ DirTypeOf(path) = "Dir"
       /\ ~ShouldRecurse(Top.level)
       /\ stack' = [stack EXCEPT ![Len(stack)] =
              Advanced(<<ProjectDir("Dir", path)>>)]
    /\ UNCHANGED <<pc, full_path, calls, entries>>
    /\ Unchanged

\* a nested call returns: the caller filters the returned vector and
\* appends it to its own results
Return ==
    /\ pc = "walk"
    /\ Len(stack) > 1
    /\ Top.pending = <<>>
    /\ LET caller == Len(stack) - 1 IN
       stack' = [SubSeq(stack, 1, caller) EXCEPT
                    ![caller].results = @ \o FilterNested(Top.results)]
    /\ UNCHANGED <<pc, full_path, calls, entries>>
    /\ Unchanged

\* the outermost call returns to main()
Finish ==
    /\ pc = "walk"
    /\ Len(stack) = 1
    /\ Top.pending = <<>>
    /\ entries' = Top.results
    /\ stack' = <<>>
    /\ pc' = "done"
    /\ UNCHANGED <<full_path, calls>>
    /\ Unchanged

Next ==
    \/ ExpandPanics
    \/ ExpandAndCall
    \/ VisitBare
    \/ VisitGit
    \/ VisitDirRecurse
    \/ VisitDirLeaf
    \/ Return
    \/ Finish

-----------------------------------------------------------------------------
(* Inputs: the root argument, the directory tree and the answers of git *)

\* sequences over S of at most n elements
SeqUpTo(S, n) == UNION {[1..k -> S] : k \in 0..n}

\* every tree of at most n directories named from Names
RECURSIVE TreesUpTo(_)
TreesUpTo(n) ==
    IF n = 0 THEN {{}}
    ELSE LET smaller == TreesUpTo(n - 1) IN
         smaller \cup
         UNION {UNION {{t \cup {Append(p, nm)} : nm \in Names} :
                       p \in t \cup {<<>>}} : t \in smaller}

TrueLine == <<"t", "r", "u", "e", "\n">>
FalseLine == <<"f", "a", "l", "s", "e", "\n">>

\* a directory git knows nothing about: both probes and the listing fail
PlainProfile ==
    [head |-> FALSE, bare |-> Ran(FALSE, <<>>), wt |-> Ran(FALSE, <<>>),
     list |-> Ran(FALSE, <<>>)]

\* the top of an ordinary repository (a Git entry when it holds .git)
RepoProfile ==
    [head |-> FALSE, bare |-> Ran(TRUE, FalseLine), wt |-> Ran(TRUE, TrueLine),
     list |-> Ran(TRUE, <<"/", "g", " ", "1", "\n">>)]

\* a git directory: bare repository, or the .git of an ordinary one
BareProfile ==
    [head |-> TRUE, bare |-> Ran(TRUE, TrueLine), wt |-> Ran(TRUE, FalseLine),
     list |-> Ran(TRUE, <<"/", "r", " ", "(", "b", "a", "r", "e", ")", "\n",
                          "/", "w", " ", "1", "\n">>)]

ShapeProfiles == {PlainProfile, RepoProfile, BareProfile}

\* what a rev-parse probe may answer
ProbeOutputs ==
    {SpawnErr,
     NonUtf8,
     Ran(TRUE, TrueLine),
     Ran(TRUE, <<" ", "t", "r", "u", "e">>),
     Ran(FALSE, TrueLine),
     Ran(TRUE, FalseLine),
     Ran(TRUE, <<"T", "r", "u", "e", "\n">>),
     Ran(FALSE, <<>>)}

\* lines a worktree listing may hold
SampleLines ==
    {<<"/", "w", " ", "1">>,
     <<"/", "r", " ", "(", "b", "a", "r", "e", ")">>,
     <<"/", "v", "\t", "2">>,
     <<"x">>,
     <<" ", "/", "u", " ", "3">>,
     <<"/", "c", " ", "4", "\r">>}

RECURSIVE JoinLines(_)
JoinLines(ls) ==
    IF ls = <<>> THEN <<>> ELSE Head(ls) \o <<"\n">> \o JoinLines(Tail(ls))

ListOutputs ==
    {SpawnErr} \cup
    {Ran(ok, JoinLines(ls)) : ok \in BOOLEAN, ls \in SeqUpTo(SampleLines, MaxLines)}

ArgPaths ==
    {<<"/", "p">>, <<"~", "/", "c">>, <<"c">>, <<"c", "/", "d">>, <<"~">>,
     <<"~", "x">>, <<"~", "x", "y">>, <<"~", "/">>, <<>>}

Homes == {<<"/", "h">>, <<"/", "h", "/">>, <<"/">>}

Idle ==
    /\ pc = "main"
    /\ full_path = <<>>
    /\ stack = <<>>
    /\ calls = <<>>
    /\ entries = <<>>

\* trees of every shape, each directory plain, a repository top or a git
\* directory
InitShapes ==
    /\ argPath = <<"/", "p">>
    /\ home = <<"/", "h">>
    /\ dirs \in TreesUpTo(MaxDirs)
    /\ env \in {e \in [dirs -> ShapeProfiles] :
                    Cardinality({d \in dirs : e[d] # PlainProfile}) <= MaxRepos}
    /\ gitPresent \in BOOLEAN
    /\ maxDepth \in 1..MaxDepthBound
    /\ Idle

\* one directory, with or without .git inside, and every answer of the probes
InitProbes ==
    /\ argPath = <<"/", "p">>
    /\ home = <<"/", "h">>
    /\ \E nm \in Names, withDotGit \in BOOLEAN, h \in BOOLEAN,
          b \in ProbeOutputs, w \in ProbeOutputs :
          /\ dirs = {<<nm>>} \cup (IF withDotGit THEN {<<nm, ".git">>} ELSE {})
          /\ env = [d \in dirs |->
                       IF d = <<nm>>
                       THEN [head |-> h, bare |-> b, wt |-> w,
                             list |-> BareProfile.list]
                       ELSE PlainProfile]
    /\ gitPresent = TRUE
    /\ maxDepth = 1
    /\ Idle

\* one bare repository and every worktree listing
InitListings ==
    /\ argPath = <<"/", "p">>
    /\ home = <<"/", "h">>
    /\ dirs = {<<"a">>}
    /\ \E l \in ListOutputs :
          env = [d \in dirs |-> [BareProfile EXCEPT !.list = l]]
    /\ gitPresent = TRUE
    /\ maxDepth = 1
    /\ Idle

\* every root argument and home directory, over an empty root
InitArgs ==
    /\ argPath \in ArgPaths
    /\ home \in Homes
    /\ dirs = {}
    /\ env = [d \in dirs |-> PlainProfile]
    /\ gitPresent = TRUE
    /\ maxDepth = 1
    /\ Idle

Init == InitShapes \/ InitProbes \/ InitListings \/ InitArgs

Spec == Init /\ [][Next]_vars

-----------------------------------------------------------------------------
(* Vocabulary of the properties *)

\* an entry pushed for an enumerated directory, not for a listed worktree
IsTraversal(e) == e.dir_type # "WorkTree"

NotPlain(e) == e.dir_type # "Dir"

\* directory p lies strictly beneath directory q
Beneath(p, q) == Len(p) > Len(q) /\ SubSeq(p, 1, Len(q)) = q

\* the probe ran, printed valid text, and the text trims to "true"
ProbeSaysTrue(d, query) ==
    LET o == Command(d, query) IN
    o.spawned /\ o.utf8 /\ Trim(o.stdout) = TrueStr

BareCondition(d) ==
    HeadIsFile(d) /\ ProbeSaysTrue(d, "bare") /\ d[Len(d)] # ".git"

GitCondition(d) == DotGitIsDir(d) /\ ProbeSaysTrue(d, "wt")

\* the kind the two conditions decide, bare first
DecidedKind(d) ==
    IF BareCondition(d) THEN "BareGit"
    ELSE IF GitCondition(d) THEN "Git"
    ELSE "Dir"

\* every entry held by main() or by an active frame
HeldEntries ==
    {entries[i] : i \in 1..Len(entries)} \cup
    UNION {{stack[f].results[i] : i \in 1..Len(stack[f].results)} :
           f \in 1..Len(stack)}

\* position of a name in the listing order of the file system
Rank(nm) == CHOOSE i \in 1..Len(NameOrder) : NameOrder[i] = nm

\* p is enumerated before q: p is an ancestor of q, or p turns off first
\* into an earlier child
EnumeratedBefore(p, q) ==
    \/ Beneath(q, p)
    \/ \E k \in 1..Len(p) :
          /\ k <= Len(q)
          /\ SubSeq(p, 1, k - 1) = SubSeq(q, 1, k - 1)
          /\ Rank(p[k]) < Rank(q[k])

-----------------------------------------------------------------------------
(* C1 *)

\* C1: whenever the walk takes a directory d from its enumeration, the entry
\* it records for d has the kind the two probes decide with bare first:
\* BareGit iff d/HEAD is a file, the inside-git-dir probe trims to "true" and
\* d is not named ".git"; else Git iff d/.git is a directory and the
\* inside-work-tree probe trims to "true"; else Dir.  It is never WorkTree.
C1_KindDecidedByProbes ==
    [][ (Walking /\ stack' # stack) =>
            LET f == Len(stack)
                d == Head(Top.pending)
                n == Len(Top.results) + 1
            IN  /\ Len(stack'[f].results) >= n
                /\ stack'[f].results[n] = ProjectDir(DecidedKind(d), d)
                /\ stack'[f].results[n].dir_type # "WorkTree" ]_vars

\* both conditions held for a recorded directory and bare won
C1_Witness ==
    /\ pc = "done"
    /\ \E i \in 1..Len(entries) :
          /\ entries[i].dir_type = "BareGit"
          /\ GitCondition(entries[i].path)

-----------------------------------------------------------------------------
(* C2 *)

\* C2: in the result of one root's walk no two traversal entries (Dir, Git,
\* BareGit) have the same path, whatever maxDepth is.
C2_TraversalPathsDistinct ==
    pc = "done" =>
        \A i, j \in 1..Len(entries) :
            (i < j /\ IsTraversal(entries[i]) /\ IsTraversal(entries[j]))
                => entries[i].path # entries[j].path

-----------------------------------------------------------------------------
(* C3 *)

\* C3: once a directory g is recorded as Git, no traversal entry has a path
\* strictly beneath g and no process_entries call is made on g or beneath it.
C3_NothingBeneathGit ==
    \A g \in HeldEntries :
        g.dir_type = "Git" =>
            /\ \A e \in HeldEntries :
                   IsTraversal(e) => ~Beneath(e.path, g.path)
            /\ \A k \in 1..Len(calls) :
                   calls[k].path # g.path /\ ~Beneath(calls[k].path, g.path)

-----------------------------------------------------------------------------
(* C4 *)

\* C4: once a directory b is recorded as BareGit, no directory strictly
\* beneath b is enumerated, classified or expanded: no traversal entry has a
\* path strictly beneath b and no process_entries call is made on b or
\* beneath it.
C4_NothingBeneathBare ==
    \A b \in HeldEntries :
        b.dir_type = "BareGit" =>
            /\ \A e \in HeldEntries :
                   IsTraversal(e) => ~Beneath(e.path, b.path)
            /\ \A k \in 1..Len(calls) :
                   calls[k].path # b.path /\ ~Beneath(calls[k].path, b.path)

-----------------------------------------------------------------------------
(* C5 *)

\* the first whitespace-delimited token of a line
FirstToken(line) ==
    LET t == TrimStart(line) IN
    IF \E i \in 1..Len(t) : IsWhitespace(t[i])
    THEN SubSeq(t, 1, (CHOOSE i \in 1..Len(t) :
                          IsWhitespace(t[i])
                          /\ \A j \in 1..(i - 1) : ~IsWhitespace(t[j])) - 1)
    ELSE t

\* the listing lines kept: no "(bare)" marker and some whitespace
KeptLine(line) ==
    ~Contains(line, BareMarker) /\ \E i \in 1..Len(line) : IsWhitespace(line[i])

\* the first tokens of the kept lines of the listing for bare repository b,
\* none when the listing fails to spawn or exits unsuccessfully
ListedTokens(b) ==
    LET o == Command(b, "list")
        kept == IF o.spawned /\ o.success
                THEN SelectSeq(Lines(o.stdout), KeptLine)
                ELSE <<>>
    IN  [k \in 1..Len(kept) |-> FirstToken(kept[k])]

\* C5: every BareGit entry of the result is directly followed by one WorkTree
\* entry per kept listing line (no "(bare)", some whitespace), carrying the
\* line's first whitespace-delimited token, in listing order; a failed
\* listing gives none; and no WorkTree entry stands anywhere else.
C5_WorktreesFollowBare ==
    pc = "done" =>
        /\ \A i \in 1..Len(entries) :
               entries[i].dir_type = "BareGit" =>
                   LET L == ListedTokens(entries[i].path) IN
                   /\ i + Len(L) <= Len(entries)
                   /\ \A k \in 1..Len(L) :
                          entries[i + k] = ProjectDir("WorkTree", L[k])
        /\ \A j \in 1..Len(entries) :
               entries[j].dir_type = "WorkTree" =>
                   \E i \in 1..(j - 1) :
                       /\ entries[i].dir_type = "BareGit"
                       /\ j <= i + Len(ListedTokens(entries[i].path))

-----------------------------------------------------------------------------
(* C6 *)

\* in the final result every Dir entry is a directory at depth 1..maxDepth
PlainEntriesTopLevel ==
    \A i \in 1..Len(entries) :
        entries[i].dir_type = "Dir" =>
            /\ entries[i].path \in dirs
            /\ Len(entries[i].path) \in 1..maxDepth

-----------------------------------------------------------------------------
(* C7 *)

\* C7 as stated: every traversal entry of the final result lies at most
\* maxDepth + 1 path segments beneath the root.
C7_AtMostOneBeyond ==
    pc = "done" =>
        \A i \in 1..Len(entries) :
            IsTraversal(entries[i]) => Len(entries[i].path) <= maxDepth + 1

\* C7 amended: every nested call is made on a directory the probes decide to
\* be plain, and every traversal entry of the final result lies at most
\* maxDepth + 2 path segments beneath the root.
C7_AtMostTwoBeyond ==
    /\ \A k \in 2..Len(calls) : DecidedKind(calls[k].path) = "Dir"
    /\ pc = "done" =>
           \A i \in 1..Len(entries) :
               IsTraversal(entries[i]) => Len(entries[i].path) <= maxDepth + 2

\* a traversal entry exactly two segments beyond maxDepth was reported
C7_Witness ==
    /\ pc = "done"
    /\ \E i \in 1..Len(entries) :
          IsTraversal(entries[i]) /\ Len(entries[i].path) = maxDepth + 2

-----------------------------------------------------------------------------
(* C8 *)

\* no invocation of git can be spawned
AllSpawnsFail ==
    \A d \in dirs : \A query \in {"bare", "wt", "list"} :
        ~Command(d, query).spawned

\* C8: when no invocation of git can be spawned, every entry any frame holds
\* is Dir, and the final result is exactly the directories at depth
\* 1..maxDepth under the root, each once, in enumeration order.
C8_GitUnavailableAllPlain ==
    AllSpawnsFail =>
        /\ \A e \in HeldEntries : e.dir_type = "Dir"
        /\ pc = "done" =>
               /\ {entries[i].path : i \in 1..Len(entries)}
                      = {d \in dirs : Len(d) <= maxDepth}
               /\ \A i, j \in 1..Len(entries) :
                      i < j => EnumeratedBefore(entries[i].path, entries[j].path)

\* git was missing over a tree holding a HEAD file and a .git directory
C8_Witness ==
    /\ pc = "done"
    /\ AllSpawnsFail
    /\ Len(entries) >= 2
    /\ \E i \in 1..Len(entries) : HeadIsFile(entries[i].path)
                                  /\ entries[i].path[Len(entries[i].path)] # ".git"
    /\ \E i \in 1..Len(entries) : DotGitIsDir(entries[i].path)

-----------------------------------------------------------------------------
(* C9 *)

\* C9: expansion leaves an argument starting with "/" unchanged, replaces a
\* leading "~/" by the home directory, and joins every other argument
\* ("~" and "~x" included) onto the home directory as it is, never failing.
C9_ExpandAsDocumented ==
    pc # "main" =>
        /\ pc # "panic"
        /\ full_path =
              IF StartsWith(argPath, <<"/">>) THEN argPath
              ELSE IF StartsWith(argPath, <<"~", "/">>)
              THEN PathJoin(home, SubSeq(argPath, 3, Len(argPath)))
              ELSE PathJoin(home, argPath)

-----------------------------------------------------------------------------
(* C10 *)

\* at most three frames are active, frame k runs at nesting level k - 1,
\* every nested call has depth 1 and a level of at most 2
RecursionBounded ==
    /\ Len(stack) <= 3
    /\ \A f \in 1..Len(stack) : stack[f].level = f - 1
    /\ \A f \in 2..Len(stack) : stack[f].depth = 1
    /\ \A k \in 2..Len(calls) : calls[k].depth = 1 /\ calls[k].level \in 1..2

\* the most steps a nested call at the given level can take on directory d:
\* one per child, one to return, and the nested calls of children while the
\* level is below 2
RECURSIVE CallBudget(_, _)
CallBudget(d, level) ==
    LET kids == {c \in dirs : Len(c) = Len(d) + 1 /\ Beneath(c, d)}
        SumOver[S \in SUBSET kids] ==
            IF S = {} THEN 0
            ELSE LET c == CHOOSE x \in S : TRUE IN
                 1 + (IF level < 2 THEN CallBudget(c, level + 1) ELSE 0)
                   + SumOver[S \ {c}]
    IN  1 + SumOver[kids]

\* the most steps an active frame can still take
RECURSIVE PendingBudget(_, _)
PendingBudget(pending, level) ==
    IF pending = <<>> THEN 0
    ELSE 1 + (IF level < 2 THEN CallBudget(Head(pending), level + 1) ELSE 0)
           + PendingBudget(Tail(pending), level)

RECURSIVE StackBudget(_)
StackBudget(frames) ==
    IF frames = <<>> THEN 0
    ELSE 1 + PendingBudget(Head(frames).pending, Head(frames).level)
           + StackBudget(Tail(frames))

\* while the walk runs a frame is active, and it can return or visit the
\* next directory, whose kind is one of the three the closure handles
CanStep ==
    pc = "walk" =>
        /\ stack # <<>>
        /\ Top.pending # <<>> =>
               DirTypeOf(Head(Top.pending)) \in {"BareGit", "Git", "Dir"}

\* C10: the walk terminates (while it runs a step is always possible and
\* every step lowers a natural-number budget computed from the tree), every
\* nested call is made with depth 1, no call has a nesting level above 2 (a
\* call at level 2 makes none), and at most three frames are ever active.
C10_BoundedAndTerminates ==
    [][ /\ RecursionBounded'
        /\ CanStep'
        /\ pc = "walk" => StackBudget(stack') < StackBudget(stack) ]_vars

\* a call at nesting level 2 meets a plain directory
C10_Witness ==
    /\ pc = "walk"
    /\ Len(stack) = 3
    /\ Top.level = 2
    /\ Top.pending # <<>>
    /\ DirTypeOf(Head(Top.pending)) = "Dir"

====
